---- MODULE Spec2Model ----
(***************************************************************************)
(* Command Palette of gpui-component: the query/selection state machine   *)
(* (crates/ui/src/command_palette/state.rs), its matcher (matcher.rs) and  *)
(* the asynchronous provider query lifecycle.                              *)
(*                                                                         *)
(* A string is a sequence of Unicode scalar values; each scalar has a      *)
(* UTF-8 byte width, so that String::len (bytes) and chars().count()       *)
(* differ on non-ASCII text.  Option<T> is a sequence of length 0 or 1.    *)
(***************************************************************************)
EXTENDS Integers, Sequences, FiniteSets, TLC

\* ------------------------------------------------------------------------
\* Bounds of the model
\* ------------------------------------------------------------------------
MaxQueryId == 2
MaxResultsBound == 3

\* ------------------------------------------------------------------------
\* Strings
\* ------------------------------------------------------------------------
None == <<>>
Some(x) == <<x>>

\* Unicode scalar value of a character; "u00e9" stands for U+00E9.
CodePoint(c) == CASE c = "a" -> 97 [] c = "b" -> 98 [] c = "u00e9" -> 233

\* char::len_utf8
Utf8Len(c) == IF CodePoint(c) < 128 THEN 1 ELSE 2

RECURSIVE ByteLen(_)
\* str::len: the length of a string in bytes
ByteLen(s) == IF s = <<>> THEN 0 ELSE Utf8Len(Head(s)) + ByteLen(Tail(s))

\* str::chars().count(): the length of a string in Unicode scalar values
CharCount(s) == Len(s)

RECURSIVE StrLess(_, _)
\* Ord for str: lexicographic comparison (UTF-8 byte order = scalar order)
StrLess(a, b) ==
    IF b = <<>> THEN FALSE
    ELSE IF a = <<>> THEN TRUE
    ELSE IF CodePoint(Head(a)) # CodePoint(Head(b))
         THEN CodePoint(Head(a)) < CodePoint(Head(b))
         ELSE StrLess(Tail(a), Tail(b))

Min(a, b) == IF a < b THEN a ELSE b

\* usize::saturating_sub
SaturatingSub(a, b) == IF a > b THEN a - b ELSE 0

\* ------------------------------------------------------------------------
\* Matcher (matcher.rs)
\* ------------------------------------------------------------------------
RECURSIVE CharToByteFrom(_, _, _)
CharToByteFrom(text, k, off) ==
    IF k > Len(text) THEN <<>>
    ELSE <<off>> \o CharToByteFrom(text, k + 1, off + Utf8Len(text[k]))

\* text.char_indices().map(|(i, _)| i).collect(): byte offset of every char
CharToByte(text) == CharToByteFrom(text, 1, 0)

RECURSIVE CharRanges(_, _, _, _, _)
\* the loop that merges consecutive char indices into char ranges
CharRanges(indices, k, start, end, acc) ==
    IF k > Len(indices) THEN Append(acc, <<start, end>>)
    ELSE LET idx == indices[k] IN
         IF idx = end
         THEN CharRanges(indices, k + 1, start, idx + 1, acc)
         ELSE CharRanges(indices, k + 1, idx, idx + 1, Append(acc, <<start, end>>))

RECURSIVE ByteRanges(_, _, _)
\* the filter_map from char ranges to byte ranges
ByteRanges(char_ranges, char_to_byte, text_len) ==
    IF char_ranges = <<>> THEN <<>>
    ELSE LET char_start == Head(char_ranges)[1]
             char_end == Head(char_ranges)[2]
             rest == ByteRanges(Tail(char_ranges), char_to_byte, text_len)
         IN IF char_start >= Len(char_to_byte) THEN rest
            ELSE LET byte_start == char_to_byte[char_start + 1]
                     byte_end == IF char_end < Len(char_to_byte)
                                 THEN char_to_byte[char_end + 1]
                                 ELSE text_len
                 IN <<(<<byte_start, byte_end>>)>> \o rest

\* indices are 0-based char indices, ranges are (start_byte, end_byte)
indices_to_ranges(indices, text) ==
    IF indices = <<>> THEN <<>>
    ELSE ByteRanges(CharRanges(indices, 2, indices[1], indices[1] + 1, <<>>),
                    CharToByte(text), ByteLen(text))

indices_to_ranges_usize(indices, text) ==
    IF indices = <<>> THEN <<>>
    ELSE ByteRanges(CharRanges(indices, 2, indices[1], indices[1] + 1, <<>>),
                    CharToByte(text), ByteLen(text))

RECURSIVE GreedyIndices(_, _, _, _)
\* leftmost embedding of the query in the text as a subsequence
GreedyIndices(q, t, qi, ti) ==
    IF qi > Len(q) \/ ti > Len(t) THEN <<>>
    ELSE IF q[qi] = t[ti]
         THEN <<ti - 1>> \o GreedyIndices(q, t, qi + 1, ti + 1)
         ELSE GreedyIndices(q, t, qi, ti + 1)

\* The fuzzy algorithm of the external crates (nucleo Pattern::indices,
\* SkimMatcherV2::fuzzy_indices), abstracted: a subsequence match whose score
\* rewards matched characters and a match at the start, and penalises the
\* span of the match.  None when the query is no subsequence of the text.
FuzzyScore(idx, n) ==
    IF Len(idx) # n THEN None
    ELSE Some([score |-> 16 * n
                         + (IF idx[1] = 0 THEN 8 ELSE 0)
                         - (idx[n] - idx[1] + 1 - n),
               indices |-> idx])

FuzzyIndices(query, text) == FuzzyScore(GreedyIndices(query, text, 1, 1), Len(query))

\* NucleoMatcher::match_text
NucleoRanges(m, text) ==
    IF m = None THEN None
    ELSE Some([score |-> m[1].score, ranges |-> indices_to_ranges(m[1].indices, text)])

NucleoMatchText(query, text) ==
    IF query = <<>> THEN Some([score |-> 0, ranges |-> <<>>])
    ELSE NucleoRanges(FuzzyIndices(query, text), text)

\* FuzzyMatcherWrapper::match_text
FuzzyRanges(m, text) ==
    IF m = None THEN None
    ELSE Some([score |-> m[1].score,
               ranges |-> indices_to_ranges_usize(m[1].indices, text)])

FuzzyMatchText(query, text) ==
    IF query = <<>> THEN Some([score |-> 0, ranges |-> <<>>])
    ELSE FuzzyRanges(FuzzyIndices(query, text), text)

\* one step of max_by_key: the later of two maximal elements wins
MaxByScore(best, m) ==
    IF m = None THEN best
    ELSE IF best = None \/ m[1].score >= best[1].score THEN m
    ELSE best

RECURSIVE BestKeyword(_, _, _, _)
\* keywords.iter().filter_map(match_text).max_by_key(score): the last of the
\* maximal elements, as Iterator::max_by_key returns
BestKeyword(kind, query, keywords, best) ==
    IF keywords = <<>> THEN best
    ELSE BestKeyword(kind, query, Tail(keywords),
                     MaxByScore(best, IF kind = "Nucleo"
                                      THEN NucleoMatchText(query, Head(keywords))
                                      ELSE FuzzyMatchText(query, Head(keywords))))

\* CommandPaletteMatch::new(score).with_title_ranges(..).with_subtitle_ranges(..)
CommandPaletteMatch(score, title_ranges, subtitle_ranges) ==
    [score |-> score, title_ranges |-> title_ranges, subtitle_ranges |-> subtitle_ranges]

\* The composition of the sub-matches, step by step over the accumulator
\* (best_score, title_ranges, subtitle_ranges).
WithTitle(title_match) ==
    IF title_match # None
    THEN [best_score |-> Some(title_match[1].score + 1000),
          title_ranges |-> title_match[1].ranges, subtitle_ranges |-> <<>>]
    ELSE [best_score |-> None, title_ranges |-> <<>>, subtitle_ranges |-> <<>>]

WithSubtitle(acc, subtitle_match) ==
    IF /\ subtitle_match # None
       /\ (acc.best_score = None \/ subtitle_match[1].score + 500 > acc.best_score[1])
    THEN [acc EXCEPT !.best_score = Some(subtitle_match[1].score + 500),
                     !.subtitle_ranges = subtitle_match[1].ranges]
    ELSE acc

WithKeyword(acc, keyword_match) ==
    IF /\ keyword_match # None
       /\ (acc.best_score = None \/ keyword_match[1].score + 200 > acc.best_score[1])
    THEN [acc EXCEPT !.best_score = Some(keyword_match[1].score + 200)]
    ELSE acc

\* a plausible slip: a category match alone creates a match
WithCategory_Alone(acc, category_match) ==
    IF category_match = None THEN acc
    ELSE [acc EXCEPT !.best_score =
             Some((IF acc.best_score = None THEN 0 ELSE acc.best_score[1])
                  + (category_match[1].score \div 10))]

\* only NucleoMatcher has this step
WithCategory(acc, category_match) ==
    IF category_match # None /\ acc.best_score # None
    THEN [acc EXCEPT !.best_score = Some(acc.best_score[1] + (category_match[1].score \div 10))]
    ELSE acc

\* best_score.map(|score| CommandPaletteMatch::new(score).with_..._ranges(..))
Finish(acc) ==
    IF acc.best_score = None THEN None
    ELSE Some(CommandPaletteMatch(acc.best_score[1], acc.title_ranges, acc.subtitle_ranges))

\* NucleoMatcher::match_item from "Combine scores and use the best match" on:
\* the four sub-matches combined into the result
NucleoCompose(title_match, subtitle_match, keyword_match, category_match) ==
    Finish(WithCategory(WithKeyword(WithSubtitle(WithTitle(title_match), subtitle_match),
                                    keyword_match),
                        category_match))

\* the same part of FuzzyMatcherWrapper::match_item, which has no category
\* step
FuzzyCompose(title_match, subtitle_match, keyword_match) ==
    Finish(WithKeyword(WithSubtitle(WithTitle(title_match), subtitle_match), keyword_match))

\* a plausible slip: the early return for the empty query is left out
NucleoMatchItem_NoEarlyReturn(query, item) ==
    NucleoCompose(NucleoMatchText(query, item.title),
                  IF item.subtitle = None THEN None
                  ELSE NucleoMatchText(query, item.subtitle[1]),
                  BestKeyword("Nucleo", query, item.keywords, None),
                  NucleoMatchText(query, item.category))

\* <NucleoMatcher as CommandMatcher>::match_item
NucleoMatchItem(query, item) ==
    IF query = <<>> THEN Some(CommandPaletteMatch(0, <<>>, <<>>))
    ELSE NucleoCompose(NucleoMatchText(query, item.title),
                       IF item.subtitle = None THEN None
                       ELSE NucleoMatchText(query, item.subtitle[1]),
                       BestKeyword("Nucleo", query, item.keywords, None),
                       NucleoMatchText(query, item.category))

\* <FuzzyMatcherWrapper as CommandMatcher>::match_item
FuzzyMatchItem(query, item) ==
    IF query = <<>> THEN Some(CommandPaletteMatch(0, <<>>, <<>>))
    ELSE FuzzyCompose(FuzzyMatchText(query, item.title),
                      IF item.subtitle = None THEN None
                      ELSE FuzzyMatchText(query, item.subtitle[1]),
                      BestKeyword("FuzzyMatcher", query, item.keywords, None))

\* self.matcher.match_item: dispatch on config.matcher
match_item(kind, query, item) ==
    IF kind = "Nucleo" THEN NucleoMatchItem(query, item) ELSE FuzzyMatchItem(query, item)

\* ------------------------------------------------------------------------
\* Items and the provider (types.rs, provider.rs)
\* ------------------------------------------------------------------------
\* CommandPaletteItem::new(id, title).disabled(disabled); payload 0 is None.
\* icon and shortcut are display data nothing reads, and are left out.
Item(id, title, disabled) ==
    [id |-> id, title |-> title, subtitle |-> None, category |-> <<>>,
     keywords |-> <<>>, disabled |-> disabled, payload |-> 0]

\* The static item lists provider.items() may return.
StaticChoices ==
    { <<>>,
      << Item("s1", <<"a", "b">>, FALSE),
         Item("s2", <<"a", "b", "a">>, TRUE),
         Item("s3", <<"u00e9", "a">>, FALSE) >> }

\* The item lists the future of provider.query() may resolve to.
QueryResults ==
    { <<>>,
      << Item("x1", <<"a", "b">>, FALSE), Item("x2", <<"b", "a", "u00e9">>, FALSE) >>,
      << Item("x1", <<"a", "b">>, FALSE), Item("x3", <<"a", "b">>, TRUE) >>,
      << Item("s1", <<"b", "a", "b">>, FALSE), Item("x1", <<"b", "a">>, FALSE) >>,
      << Item("x1", <<"b", "a">>, FALSE), Item("x4", <<"a", "b", "a">>, FALSE),
         Item("x1", <<"a", "b">>, FALSE) >> }

\* The provider marks each item it returns with the serial number of the call
\* that produced it (payload is opaque caller data).
Stamp(items, call) == [k \in 1..Len(items) |-> [items[k] EXCEPT !.payload = call]]

\* The texts the input field may hand to set_query.
Queries ==
    { <<>>, <<"a">>, <<"u00e9">>, <<"a", "b">>, <<"b", "a">> }

\* ------------------------------------------------------------------------
\* Recompute (state.rs, update_matches)
\* ------------------------------------------------------------------------
Range(s) == {s[k] : k \in 1..Len(s)}

\* All iteration orders of a HashMap holding the items of S.
Orders(S) == {o \in [1..Cardinality(S) -> S] : Range(o) = S}

\* static_items.iter().position(|i| i.id == id), for an id the list holds
Position(items, id) ==
    CHOOSE k \in 1..Len(items) :
       /\ items[k].id = id
       /\ \A j \in 1..(k - 1) : items[j].id # id

RECURSIVE MergeAsync(_, _, _)
\* a plausible slip: every entry of async_items is pushed to async_only_items,
\* without looking for a static item with its id
MergeAsync_NoIdentity(order, static_items, async_only_items) ==
    [static_items |-> static_items, async_only_items |-> async_only_items \o order]

\* the loop over async_items: an entry whose id is a static id overwrites that
\* static item in place, any other entry is pushed to async_only_items
MergeAsync(order, static_items, async_only_items) ==
    IF order = <<>>
    THEN [static_items |-> static_items, async_only_items |-> async_only_items]
    ELSE IF \E k \in 1..Len(static_items) : static_items[k].id = Head(order).id
    THEN MergeAsync(Tail(order),
                    [static_items EXCEPT ![Position(static_items, Head(order).id)] = Head(order)],
                    async_only_items)
    ELSE MergeAsync(Tail(order), static_items, Append(async_only_items, Head(order)))

\* match_item(..).map(|match_info| MatchedItem::new(item, match_info)), as a
\* list of no or one element
MatchedItem(item, m) ==
    IF m = None THEN <<>> ELSE <<[item |-> item, match_info |-> m[1]]>>

RECURSIVE FilterMatch(_, _, _)
\* items.into_iter().filter_map(|item| match_item(query, item).map(MatchedItem::new))
FilterMatch(kind, query, items) ==
    IF items = <<>> THEN <<>>
    ELSE MatchedItem(Head(items), match_item(kind, query, Head(items)))
         \o FilterMatch(kind, query, Tail(items))

\* a plausible slip: the tie-break on the title is left out
SortsBefore_NoTieBreak(a, b) == a.match_info.score > b.match_info.score

\* the comparator of sort_by: Less when a sorts strictly before b
SortsBefore(a, b) ==
    \/ a.match_info.score > b.match_info.score
    \/ /\ a.match_info.score = b.match_info.score
       /\ StrLess(a.item.title, b.item.title)

RECURSIVE InsertStable(_, _)
InsertStable(sorted, x) ==
    IF sorted = <<>> THEN <<x>>
    ELSE IF SortsBefore(x, Head(sorted)) THEN <<x>> \o sorted
    ELSE <<Head(sorted)>> \o InsertStable(Tail(sorted), x)

RECURSIVE SortBy(_)
\* slice::sort_by, a stable sort
SortBy(s) ==
    IF s = <<>> THEN <<>>
    ELSE InsertStable(SortBy(SubSeq(s, 1, Len(s) - 1)), s[Len(s)])

\* a plausible slip: truncation keeps one element too many
Truncate_OneMore(s, n) == SubSeq(s, 1, Min(n + 1, Len(s)))

\* Vec::truncate
Truncate(s, n) == SubSeq(s, 1, Min(n, Len(s)))

\* a plausible slip: the async list is served first
Limits_AsyncFirst(static_len, async_len, max) ==
    LET total_limit == Min(static_len + async_len, max)
        async_limit == Min(async_len, total_limit)
    IN [static_limit |-> SaturatingSub(total_limit, async_limit),
        async_limit |-> async_limit]

\* total_limit, static_limit and async_limit of update_matches
Limits(static_len, async_len, max) ==
    LET total_len == static_len + async_len
        total_limit == Min(total_len, max)
        static_limit == Min(static_len, total_limit)
    IN [static_limit |-> static_limit,
        async_limit |-> SaturatingSub(total_limit, static_limit)]

\* the end of update_matches: matched_items, matched_static_len and the
\* selection reset
Assemble(matched_static, matched_async) ==
    [matched_items |-> matched_static \o matched_async,
     matched_static_len |-> Len(matched_static),
     selected_index |-> IF matched_static \o matched_async = <<>> THEN None ELSE Some(0)]

\* the truncation of the two sorted lists
TruncateBoth(matched_static, matched_async, max) ==
    Assemble(Truncate(matched_static,
                      Limits(Len(matched_static), Len(matched_async), max).static_limit),
             Truncate(matched_async,
                      Limits(Len(matched_static), Len(matched_async), max).async_limit))

\* the two sorts, skipped for the empty query
SortBoth(query, matched_static, matched_async, max) ==
    IF query # <<>>
    THEN TruncateBoth(SortBy(matched_static), SortBy(matched_async), max)
    ELSE TruncateBoth(matched_static, matched_async, max)

\* the two filter_map passes over the merged lists
MatchBoth(kind, query, merged, max) ==
    SortBoth(query, FilterMatch(kind, query, merged.static_items),
             FilterMatch(kind, query, merged.async_only_items), max)

\* update_matches: the new matched_items, matched_static_len and
\* selected_index, for one iteration order of async_items
update_matches(kind, query, static_items, async_order, max) ==
    IF ByteLen(query) = 1
    THEN [matched_items |-> <<>>, matched_static_len |-> 0, selected_index |-> None]
    ELSE MatchBoth(kind, query, MergeAsync(async_order, static_items, <<>>), max)

\* ------------------------------------------------------------------------
\* Rows of the list (view.rs)
\* ------------------------------------------------------------------------
\* CommandPaletteRow::Header(title) and CommandPaletteRow::Item(index)
Header(title) == <<"Header", title>>

ItemRow(index) == <<"Item", index>>

\* (from..to).map(CommandPaletteRow::Item)
ItemRows(from, to) == [k \in 1..(to - from) |-> ItemRow(from + k - 1)]

\* the rows pushed for one section: its header, if the section has a title,
\* and its items
Section(title, from, to) ==
    IF to > from
    THEN (IF title # <<>> THEN <<Header(title[1])>> ELSE <<>>) \o ItemRows(from, to)
    ELSE <<>>

\* build_rows(state, matched_items), with static_len and item_count the
\* values of static_len and of matched_items.len(), and commands_title and
\* results_title those of config.commands_section_title and of
\* config.results_section_title
BuildRows(query_empty, static_len, item_count, commands_title, results_title) ==
    IF query_empty
    THEN ItemRows(0, static_len)
    ELSE Section(commands_title, 0, static_len)
         \o Section(results_title, static_len, item_count)

\* let static_len = state.matched_static_len.min(matched_items.len())
StaticLen(matched_static_len, item_count) ==
    IF matched_static_len < item_count THEN matched_static_len ELSE item_count

build_rows(query, matched_static_len, matched_items, commands_title, results_title) ==
    BuildRows(query = <<>>, StaticLen(matched_static_len, Len(matched_items)),
              Len(matched_items), commands_title, results_title)

\* usize::from(bool)
FromBool(b) == IF b THEN 1 ELSE 0

\* a plausible slip: the header of the results section is not counted
RowIndex_NoResultsHeader(query_empty, static_len, async_len, item_index, commands, results) ==
    IF query_empty THEN item_index
    ELSE item_index + FromBool(static_len > 0 /\ commands)

\* the body of row_index_for_item, with commands and results the presence
\* of the titles of the two sections
RowIndex(query_empty, static_len, async_len, item_index, commands, results) ==
    IF query_empty THEN item_index
    ELSE item_index + FromBool(static_len > 0 /\ commands)
         + FromBool(item_index >= static_len /\ async_len > 0 /\ results)

row_index_for_item(query, matched_static_len, matched_items, item_index, commands_title, results_title) ==
    RowIndex(query = <<>>, StaticLen(matched_static_len, Len(matched_items)),
             Len(matched_items) - StaticLen(matched_static_len, Len(matched_items)),
             item_index, commands_title # <<>>, results_title # <<>>)

\* The values of config.commands_section_title and of
\* config.results_section_title: absent, or the default title.
CommandsTitles == {<<>>, <<"Commands">>}

ResultsTitles == {<<>>, <<"Search Results">>}

\* ------------------------------------------------------------------------
\* State (state.rs, struct CommandPaletteState)
\* ------------------------------------------------------------------------
VARIABLES
    max_results,        \* config.max_results
    matcher,            \* config.matcher: "Nucleo" or "FuzzyMatcher"
    static_items,       \* Vec<CommandPaletteItem>, taken once from provider.items()
    query,              \* String
    query_id,           \* Arc<AtomicU64>, the generation counter
    async_items,        \* HashMap<String, CommandPaletteItem>: the set of its values,
                        \* every value is stored under its own id
    matched_items,      \* Vec<MatchedItem>
    matched_static_len, \* usize
    selected_index,     \* Option<usize>
    tasks,              \* position of the task spawned for each generation: "none",
                        \* "spawned", "awaiting" (the provider's future), "applied"
                        \* (ended having merged its result), "ended" (ended or
                        \* cancelled without effect)
    provider_calls,     \* the calls of provider.query made so far: [gen, text]
    alive,              \* the state entity and its window still exist
    last_call,          \* the last step taken and the events it emitted
    fn_input,           \* the arguments of a call of a function of matcher.rs made
                        \* on its own, outside a session; None when there is none
    fn_output,          \* the value that call returned, as a list of one element;
                        \* empty until the call has returned
    mounted,            \* keyed_presence has been called for the element, so its
                        \* keyed state exists
    target_state,       \* keyed state "<key>-presence-target": bool
    phase_state,        \* keyed state "<key>-presence-phase": PresencePhase
    generation_state,   \* keyed state "<key>-presence-generation": u64
    timers              \* the completion timer spawned by the target change of each
                        \* generation: None, or whether it was spawned by an open
                        \* and its status "pending" (timer running), "stale"
                        \* (ended at the generation check), "ignored" (ended at the
                        \* target check) or "completed" (it set the phase)

vars == <<max_results, matcher, static_items, query, query_id, async_items,
          matched_items, matched_static_len, selected_index, tasks,
          provider_calls, alive, last_call, fn_input, fn_output,
          mounted, target_state, phase_state, generation_state, timers>>

\* the call of a function on its own, which no handler of the session touches
pureVars == <<fn_input, fn_output>>

\* the keyed state of a presence and its timers, which no handler of the
\* session and no call of a function on its own touches
presenceVars == <<mounted, target_state, phase_state, generation_state, timers>>

\* the longest sequence of target changes of one presence
MaxGeneration == 4

PresenceGenerations == 1..MaxGeneration

\* No presence is mounted: the keyed state does not exist yet.
Unmounted ==
    /\ mounted = FALSE
    /\ target_state = FALSE
    /\ phase_state = "Exited"
    /\ generation_state = 0
    /\ timers = [g \in PresenceGenerations |-> None]

\* what update_matches assigns
matchVars == <<matched_items, matched_static_len, selected_index>>

\* the fields of the session that a handler may leave alone
configVars == <<max_results, matcher, static_items>>

Generations == 1..MaxQueryId

Call(op, emitted) == [op |-> op, emitted |-> emitted]

\* the assignments of update_matches, in the constructor and in a handler
InitMatches(r) ==
    /\ matched_items = r.matched_items
    /\ matched_static_len = r.matched_static_len
    /\ selected_index = r.selected_index

\* a plausible slip: the selection is kept across a recompute when it still
\* designates a row
AssignMatches_KeepSelection(r) ==
    /\ matched_items' = r.matched_items
    /\ matched_static_len' = r.matched_static_len
    /\ selected_index' =
          IF r.matched_items = <<>> THEN None
          ELSE IF selected_index # None /\ selected_index[1] < Len(r.matched_items)
               THEN selected_index
               ELSE Some(0)

AssignMatches(r) ==
    /\ matched_items' = r.matched_items
    /\ matched_static_len' = r.matched_static_len
    /\ selected_index' = r.selected_index

\* CommandPaletteState::new
Init ==
    /\ max_results \in 0..MaxResultsBound
    /\ matcher = "Nucleo"    \* CommandPaletteConfig::default(); the items of
                             \* this specification rank alike under both back-ends
    /\ static_items \in StaticChoices
    /\ query = <<>>
    /\ query_id = 0
    /\ async_items = {}
    /\ InitMatches(update_matches(matcher, <<>>, static_items, <<>>, max_results))
    /\ tasks = [g \in Generations |-> "none"]
    /\ provider_calls = {}
    /\ alive = TRUE
    /\ last_call = Call("new", <<>>)
    /\ fn_input = None
    /\ fn_output = <<>>
    /\ Unmounted

\* ------------------------------------------------------------------------
\* set_query and the task it spawns
\* ------------------------------------------------------------------------
\* Assigning self._query_task drops the task held before.  Dropping a task
\* cancels it, unless it has been handed to the executor for good; the code
\* relies on the generation check either way, so both outcomes are kept.
DropTask(held, cancelled) ==
    [g \in Generations |->
        IF g = held /\ cancelled /\ tasks[g] \in {"spawned", "awaiting"}
        THEN "ended" ELSE tasks[g]]

\* a plausible slip: HashMap::clear forgotten
Clear_Forgotten(map) == map

\* HashMap::clear
Clear(map) == {}

\* a plausible slip: the early return of set_query left out
SameQuery_Never(new_query) == FALSE

\* the guard of the early return of set_query
SameQuery(new_query) == query = new_query

set_query(new_query) ==
    /\ alive
    /\ IF SameQuery(new_query)
       THEN /\ last_call' = Call("set_query_same", <<>>)
            /\ UNCHANGED <<configVars, pureVars, presenceVars, query, query_id, async_items, matchVars,
                           tasks, provider_calls, alive>>
       ELSE /\ query_id < MaxQueryId
            /\ query' = new_query
            /\ query_id' = query_id + 1
            /\ async_items' = Clear(async_items)
            /\ \E order \in Orders(async_items') :
                 AssignMatches(update_matches(matcher, new_query, static_items, order,
                                              max_results))
            /\ \E cancelled \in BOOLEAN :
                 tasks' = [DropTask(query_id, cancelled) EXCEPT ![query_id + 1] =
                              IF ByteLen(new_query) < 2 THEN "none" ELSE "spawned"]
            /\ last_call' = Call(IF ByteLen(new_query) < 2 THEN "set_query_short"
                                 ELSE "set_query", <<>>)
            /\ UNCHANGED <<configVars, pureVars, presenceVars, provider_calls, alive>>

\* a plausible slip: the generation is not compared
Superseded_Never(g) == FALSE

\* a plausible slip: the generation check is inverted into "always stale"
Superseded_Always(g) == TRUE

\* query_id.load(Ordering::SeqCst) != current_query_id
Superseded(g) == query_id # g

\* The spawned task up to its first suspension on the provider's future: the
\* reveal delay has passed, the generation is checked, provider.query is called.
TaskQuery(g) ==
    /\ tasks[g] = "spawned"
    /\ IF Superseded(g)
       THEN /\ tasks' = [tasks EXCEPT ![g] = "ended"]
            /\ last_call' = Call("task_stale_after_delay", <<>>)
            /\ UNCHANGED provider_calls
       ELSE IF ~alive
       THEN /\ tasks' = [tasks EXCEPT ![g] = "ended"]
            /\ last_call' = Call("task_released", <<>>)
            /\ UNCHANGED provider_calls
       ELSE /\ tasks' = [tasks EXCEPT ![g] = "awaiting"]
            /\ provider_calls' = provider_calls \cup {[gen |-> g, text |-> query]}
            /\ last_call' = Call("task_query", <<>>)
    /\ UNCHANGED <<configVars, pureVars, presenceVars, query, query_id, async_items, matchVars, alive>>

RECURSIVE InsertAll(_, _)
\* for item in async_items { this.async_items.insert(item.id, item) }
InsertAll(map, items) ==
    IF items = <<>> THEN map
    ELSE InsertAll({e \in map : e.id # Head(items).id} \cup {Head(items)}, Tail(items))

\* The spawned task from the resolution of the provider's future to its end:
\* the generation is checked again and the result is merged.
TaskComplete(g, result) ==
    /\ tasks[g] = "awaiting"
    /\ IF Superseded(g)
       THEN /\ tasks' = [tasks EXCEPT ![g] = "ended"]
            /\ last_call' = Call("task_stale_after_query", <<>>)
            /\ UNCHANGED <<async_items, matchVars>>
       ELSE IF ~alive
       THEN /\ tasks' = [tasks EXCEPT ![g] = "ended"]
            /\ last_call' = Call("task_released", <<>>)
            /\ UNCHANGED <<async_items, matchVars>>
       ELSE /\ tasks' = [tasks EXCEPT ![g] = "applied"]
            /\ async_items' = InsertAll(Clear(async_items), Stamp(result, g))
            /\ \E order \in Orders(async_items') :
                 AssignMatches(update_matches(matcher, query, static_items, order,
                                              max_results))
            /\ last_call' = Call("task_apply", <<>>)
    /\ UNCHANGED <<configVars, pureVars, presenceVars, query, query_id, provider_calls, alive>>

\* ------------------------------------------------------------------------
\* Selection, confirm, dismiss
\* ------------------------------------------------------------------------
\* a plausible slip: select_prev stops at the first row instead of wrapping
select_prev_NoWrap ==
    /\ alive
    /\ IF matched_items = <<>>
       THEN UNCHANGED selected_index
       ELSE selected_index' =
               Some(IF selected_index = None \/ selected_index = Some(0)
                    THEN 0
                    ELSE selected_index[1] - 1)
    /\ last_call' = Call("select_prev", <<>>)
    /\ UNCHANGED <<configVars, pureVars, presenceVars, query, query_id, async_items, matched_items,
                   matched_static_len, tasks, provider_calls, alive>>

select_prev ==
    /\ alive
    /\ IF matched_items = <<>>
       THEN UNCHANGED selected_index
       ELSE selected_index' =
               Some(IF selected_index = None \/ selected_index = Some(0)
                    THEN Len(matched_items) - 1
                    ELSE selected_index[1] - 1)
    /\ last_call' = Call("select_prev", <<>>)
    /\ UNCHANGED <<configVars, pureVars, presenceVars, query, query_id, async_items, matched_items,
                   matched_static_len, tasks, provider_calls, alive>>

\* a plausible slip: select_next wraps one row too late
select_next_OffByOne ==
    /\ alive
    /\ IF matched_items = <<>>
       THEN UNCHANGED selected_index
       ELSE selected_index' =
               Some(IF selected_index = None THEN 0
                    ELSE IF selected_index[1] >= Len(matched_items) THEN 0
                    ELSE selected_index[1] + 1)
    /\ last_call' = Call("select_next", <<>>)
    /\ UNCHANGED <<configVars, pureVars, presenceVars, query, query_id, async_items, matched_items,
                   matched_static_len, tasks, provider_calls, alive>>

select_next ==
    /\ alive
    /\ IF matched_items = <<>>
       THEN UNCHANGED selected_index
       ELSE selected_index' =
               Some(IF selected_index = None THEN 0
                    ELSE IF selected_index[1] >= Len(matched_items) - 1 THEN 0
                    ELSE selected_index[1] + 1)
    /\ last_call' = Call("select_next", <<>>)
    /\ UNCHANGED <<configVars, pureVars, presenceVars, query, query_id, async_items, matched_items,
                   matched_static_len, tasks, provider_calls, alive>>

\* a plausible slip: the bound of select_index is inclusive
select_index_Inclusive(index) ==
    /\ alive
    /\ IF index <= Len(matched_items)
       THEN /\ selected_index' = Some(index)
            /\ last_call' = Call("select_index", <<>>)
       ELSE /\ UNCHANGED selected_index
            /\ last_call' = Call("select_index_out_of_bounds", <<>>)
    /\ UNCHANGED <<configVars, pureVars, presenceVars, query, query_id, async_items, matched_items,
                   matched_static_len, tasks, provider_calls, alive>>

select_index(index) ==
    /\ alive
    /\ IF index < Len(matched_items)
       THEN /\ selected_index' = Some(index)
            /\ last_call' = Call("select_index", <<>>)
       ELSE /\ UNCHANGED selected_index
            /\ last_call' = Call("select_index_out_of_bounds", <<>>)
    /\ UNCHANGED <<configVars, pureVars, presenceVars, query, query_id, async_items, matched_items,
                   matched_static_len, tasks, provider_calls, alive>>

\* self.matched_items.get(index)
Get(s, index) == IF index < Len(s) THEN Some(s[index + 1]) ELSE None

\* a plausible slip: confirm does not look at the disabled flag
confirm_IgnoresDisabled ==
    /\ alive
    /\ last_call' =
          Call("confirm",
               IF selected_index = None THEN <<>>
               ELSE LET matched == Get(matched_items, selected_index[1]) IN
                    IF matched = None THEN <<>>
                    ELSE <<[event |-> "Selected", item |-> matched[1].item]>>)
    /\ UNCHANGED <<configVars, pureVars, presenceVars, query, query_id, async_items, matchVars, tasks,
                   provider_calls, alive>>

confirm ==
    /\ alive
    /\ last_call' =
          Call("confirm",
               IF selected_index = None THEN <<>>
               ELSE LET matched == Get(matched_items, selected_index[1]) IN
                    IF matched = None THEN <<>>
                    ELSE IF ~matched[1].item.disabled
                         THEN <<[event |-> "Selected", item |-> matched[1].item]>>
                         ELSE <<>>)
    /\ UNCHANGED <<configVars, pureVars, presenceVars, query, query_id, async_items, matchVars, tasks,
                   provider_calls, alive>>

dismiss ==
    /\ alive
    /\ last_call' = Call("dismiss", <<[event |-> "Dismissed"]>>)
    /\ UNCHANGED <<configVars, pureVars, presenceVars, query, query_id, async_items, matchVars, tasks,
                   provider_calls, alive>>

\* The dialog is closed and the state entity released; a task that is still
\* running finds update_in failing.
Release ==
    /\ alive
    /\ alive' = FALSE
    /\ last_call' = Call("release", <<>>)
    /\ UNCHANGED <<configVars, pureVars, presenceVars, query, query_id, async_items, matchVars, tasks,
                   provider_calls>>

\* the indices select_index is called with: in bounds and out of bounds
Indices == 0..MaxResultsBound

SetQuery == \E q \in Queries : set_query(q)
RunTaskQuery == \E g \in Generations : TaskQuery(g)
RunTaskComplete == \E g \in Generations : \E result \in QueryResults : TaskComplete(g, result)
SelectIndex == \E i \in Indices : select_index(i)

Next ==
    \/ SetQuery
    \/ RunTaskQuery
    \/ RunTaskComplete
    \/ select_prev
    \/ select_next
    \/ SelectIndex
    \/ confirm
    \/ dismiss
    \/ Release

Spec == Init /\ [][Next]_vars

\* A session with the largest result cap: the cap plays no part in the
\* scheduling of the tasks.
FairInit == Init /\ max_results = MaxResultsBound

\* A poll of the task of generation g by the executor: the step of the task
\* itself, which moves it from the point where it was suspended to its next
\* suspension or to its end.
Polled(g) ==
    /\ tasks[g] \in {"spawned", "awaiting"}
    /\ \E position \in {"awaiting", "ended", "applied"} :
          /\ position # tasks[g]
          /\ tasks' = [tasks EXCEPT ![g] = position]

\* The executor polls every task that is ready: a spawned task whose delay has
\* passed reaches its call of provider.query, and a task whose provider
\* future has resolved is resumed.
FairSpec == FairInit /\ [][Next]_vars /\ \A g \in Generations : WF_tasks(Polled(g))

\* ------------------------------------------------------------------------
\* The functions of matcher.rs called on their own
\* ------------------------------------------------------------------------
\* CommandPaletteItem::new(id, title) with subtitle, category, keywords and
\* disabled set by the builder methods
ItemWith(id, title, subtitle, category, keywords, disabled) ==
    [id |-> id, title |-> title, subtitle |-> subtitle, category |-> category,
     keywords |-> keywords, disabled |-> disabled, payload |-> 0]

\* The items match_item is called with.
ProbeItems ==
    { ItemWith("p1", <<"a", "b">>, None, <<>>, <<>>, FALSE),
      ItemWith("p2", <<"u00e9", "a">>, Some(<<"b", "a">>), <<"a", "b">>,
               << <<"b", "a">> >>, FALSE),
      ItemWith("p3", <<>>, Some(<<>>), <<>>, <<>>, TRUE),
      ItemWith("p4", <<"b", "a">>, None, <<"b", "a">>,
               << <<"a", "b">>, <<"b", "a", "b">> >>, TRUE) }

\* The arguments of the calls of match_item.
MatchInputs ==
    [op : {"match_item"}, kind : {"Nucleo", "FuzzyMatcher"}, query : Queries,
     item : ProbeItems]

\* The scores a sub-match may carry (nucleo scores are u32 values).
SubScores == {0, 15, 650, 900}

\* The outcomes of match_text on one field: no match, or a score and ranges.
SubOutcomes(ranges) ==
    {None} \cup {Some([score |-> x, ranges |-> ranges]) : x \in SubScores}

\* The sub-matches the combining part of NucleoMatcher::match_item is run on.
ComposeInputs ==
    [op : {"compose"},
     title_match : SubOutcomes(<< <<0, 1>> >>),
     subtitle_match : SubOutcomes(<< <<1, 2>> >>),
     keyword_match : SubOutcomes(<<>>),
     category_match : SubOutcomes(<<>>)]

\* The same sub-matches, handed to the combining parts of both back-ends.
ComposeBothInputs ==
    [op : {"compose_both"},
     title_match : SubOutcomes(<< <<0, 1>> >>),
     subtitle_match : SubOutcomes(<< <<1, 2>> >>),
     keyword_match : SubOutcomes(<<>>),
     category_match : SubOutcomes(<<>>)]

\* The longest list of indices and of ranges a call is made with.
MaxIndices == 3

RECURSIVE Bytes(_)
\* str::as_bytes: byte k of a char c of the text is <<c, k>>
Bytes(text) ==
    IF text = <<>> THEN <<>>
    ELSE [k \in 1..Utf8Len(Head(text)) |-> <<Head(text), k>>] \o Bytes(Tail(text))

\* str::is_char_boundary
IsCharBoundary(text, offset) ==
    offset = ByteLen(text) \/ \E k \in 1..Len(text) : CharToByte(text)[k] = offset

\* &text[from..to] does not panic
SliceOk(text, from, to) ==
    /\ from <= to
    /\ to <= ByteLen(text)
    /\ IsCharBoundary(text, from)
    /\ IsCharBoundary(text, to)

\* &text[from..to]
Slice(text, from, to) == SubSeq(Bytes(text), from + 1, to)

\* the element pushed for text[from..to] when the guard of the push holds
Pushed(guard, text, from, to) == IF guard THEN <<Slice(text, from, to)>> ELSE <<>>

RECURSIVE RenderLoop(_, _, _, _)
\* the loop of render_highlighted_text over the ranges and the push of the
\* remaining text: the texts of the elements, or a panic of a slice
RenderLoop(text, ranges, last_end, elements) ==
    IF ranges = <<>>
    THEN IF last_end < ByteLen(text) /\ ~SliceOk(text, last_end, ByteLen(text))
         THEN [panicked |-> TRUE, elements |-> <<>>]
         ELSE [panicked |-> FALSE,
               elements |-> elements \o Pushed(last_end < ByteLen(text), text, last_end,
                                               ByteLen(text))]
    ELSE IF Head(ranges)[1] > last_end /\ ~SliceOk(text, last_end, Head(ranges)[1])
    THEN [panicked |-> TRUE, elements |-> <<>>]
    ELSE IF /\ Head(ranges)[1] < Min(Head(ranges)[2], ByteLen(text))
            /\ ~SliceOk(text, Head(ranges)[1], Min(Head(ranges)[2], ByteLen(text)))
    THEN [panicked |-> TRUE, elements |-> <<>>]
    ELSE RenderLoop(text, Tail(ranges), Min(Head(ranges)[2], ByteLen(text)),
                    elements
                    \o Pushed(Head(ranges)[1] > last_end, text, last_end, Head(ranges)[1])
                    \o Pushed(Head(ranges)[1] < Min(Head(ranges)[2], ByteLen(text)), text,
                              Head(ranges)[1], Min(Head(ranges)[2], ByteLen(text))))

\* CommandPaletteView::render_highlighted_text
render_highlighted_text(text, ranges) ==
    IF ranges = <<>> THEN [panicked |-> FALSE, elements |-> <<Bytes(text)>>]
    ELSE RenderLoop(text, ranges, 0, <<>>)

\* The texts the ranges are computed for and rendered with.
Texts == { <<"a", "b">>, <<"u00e9", "a">>, <<"a", "u00e9", "b">> }

\* all lists of at most n elements of S
SeqUpTo(S, n) == UNION {[1..k -> S] : k \in 0..n}

\* The index lists a back-end hands to the conversion for a text of n chars.
\* SkimMatcherV2::fuzzy_indices reports the matched positions in ascending
\* order.  Pattern::indices of nucleo appends the positions matched by each
\* word of the query in turn, without sorting or removing repetitions, so
\* for a query of several words the list may descend and repeat an index.
ReportedIndices(kind, n) ==
    IF kind = "FuzzyMatcher"
    THEN {idx \in SeqUpTo(0..(n - 1), MaxIndices) :
             \A k \in 1..(Len(idx) - 1) : idx[k] < idx[k + 1]}
    ELSE SeqUpTo(0..(n - 1), MaxIndices)

\* The arguments of the calls of indices_to_ranges / indices_to_ranges_usize.
RangesInputs ==
    UNION {[op : {"ranges"}, kind : {kind}, text : {text},
            indices : ReportedIndices(kind, Len(text))] :
              kind \in {"Nucleo", "FuzzyMatcher"}, text \in Texts}

\* ------------------------------------------------------------------------
\* Theme animations (animation.rs)

\* A theme easing string, by the parts the parser looks at: whether it is the
\* word linear, whether it has the shape cubic-bezier(...), and the
\* comma-separated parts between the parentheses, each the number it parses
\* to, in hundredths, or None for a part that is not a number.
EasingText(kind, parts) == [kind |-> kind, parts |-> parts]

\* parse_cubic_bezier_easing(value)
parse_cubic_bezier_easing(value) ==
    IF /\ value.kind = "cubic-bezier"
       /\ Len(value.parts) = 4
       /\ \A k \in 1..4 : value.parts[k] # None
    THEN Some([k \in 1..4 |-> value.parts[k][1]])
    ELSE None

\* Animation::new(duration): a duration with the default easing
Animation(duration_ms) == [duration_ms |-> duration_ms, easing |-> "default"]

\* the overshoot test of animation_with_theme_easing, on hundredths
Overshoot(y1, y2) == y1 < 0 \/ y1 > 100 \/ y2 < 0 \/ y2 > 100

\* animation_with_theme_easing(animation, easing)
animation_with_theme_easing(animation, easing) ==
    IF easing.kind = "linear"
    THEN [animation EXCEPT !.easing = "linear"]
    ELSE IF parse_cubic_bezier_easing(easing) # None
         THEN IF Overshoot(parse_cubic_bezier_easing(easing)[1][2],
                           parse_cubic_bezier_easing(easing)[1][4])
              THEN [animation EXCEPT !.easing = "cubic_bezier_unbounded"]
              ELSE [animation EXCEPT !.easing = "cubic_bezier"]
         ELSE animation

\* theme_animation(duration_ms, easing, reduced_motion)
theme_animation(duration_ms, easing, reduced_motion) ==
    IF reduced_motion
    THEN None
    ELSE Some(animation_with_theme_easing(Animation(duration_ms), easing))

fast_invoke_animation(motion, reduced_motion) ==
    theme_animation(motion.fast_duration_ms, motion.fast_invoke_easing, reduced_motion)

soft_dismiss_animation(motion, reduced_motion) ==
    theme_animation(motion.soft_dismiss_duration_ms, motion.soft_dismiss_easing,
                    reduced_motion)

point_to_point_animation(motion, reduced_motion) ==
    theme_animation(motion.fast_duration_ms, motion.point_to_point_easing, reduced_motion)

fade_animation(motion, reduced_motion) ==
    theme_animation(motion.fade_duration_ms, motion.fade_easing, reduced_motion)

strong_invoke_animation(motion, reduced_motion) ==
    theme_animation(motion.strong_invoke_duration_ms, motion.strong_invoke_easing,
                    reduced_motion)

SpringPreset == {"Mild", "Medium"}

\* the duration spring_preset_animation reads for a preset
SpringDuration(motion, preset) ==
    IF preset = "Mild"
    THEN motion.spring_mild_duration_ms
    ELSE motion.spring_medium_duration_ms

spring_preset_animation_IgnoresReducedMotion(motion, reduced_motion, preset) ==
    Some([Animation(SpringDuration(motion, preset)) EXCEPT !.easing = "spring"])

\* spring_preset_animation(motion, reduced_motion, preset)
spring_preset_animation(motion, reduced_motion, preset) ==
    IF reduced_motion
    THEN None
    ELSE Some([Animation(SpringDuration(motion, preset)) EXCEPT !.easing = "spring"])

\* spring_invoke_animation(motion, reduced_motion)
spring_invoke_animation(motion, reduced_motion) ==
    spring_preset_animation(motion, reduced_motion, "Mild")

\* the animation constructors of the module
Constructors ==
    {"fast_invoke", "soft_dismiss", "point_to_point", "fade", "strong_invoke",
     "spring_mild", "spring_medium", "spring_invoke"}

\* one constructor, called by name
Construct(constructor, motion, reduced_motion) ==
    CASE constructor = "fast_invoke" -> fast_invoke_animation(motion, reduced_motion)
      [] constructor = "soft_dismiss" -> soft_dismiss_animation(motion, reduced_motion)
      [] constructor = "point_to_point" -> point_to_point_animation(motion, reduced_motion)
      [] constructor = "fade" -> fade_animation(motion, reduced_motion)
      [] constructor = "strong_invoke" -> strong_invoke_animation(motion, reduced_motion)
      [] constructor = "spring_mild" -> spring_preset_animation(motion, reduced_motion, "Mild")
      [] constructor = "spring_medium" ->
            spring_preset_animation(motion, reduced_motion, "Medium")
      [] constructor = "spring_invoke" -> spring_invoke_animation(motion, reduced_motion)

\* The durations and easing strings of theme_motion_defaults() with spring
\* durations of 400 and 500 ms, and a theme whose durations are zero and whose
\* easing strings are an overshooting curve, a curve with a part that is
\* not a number, a curve of five parts and a word that is no easing
Motions ==
    { [fast_duration_ms |-> 187, strong_invoke_duration_ms |-> 667,
       soft_dismiss_duration_ms |-> 167, fade_duration_ms |-> 83,
       spring_mild_duration_ms |-> 400, spring_medium_duration_ms |-> 500,
       fast_invoke_easing |-> EasingText("cubic-bezier", <<Some(0), Some(0), Some(0), Some(100)>>),
       strong_invoke_easing |-> EasingText("cubic-bezier", <<Some(13), Some(100), Some(0), Some(92)>>),
       soft_dismiss_easing |-> EasingText("cubic-bezier", <<Some(100), Some(0), Some(100), Some(100)>>),
       point_to_point_easing |-> EasingText("cubic-bezier", <<Some(55), Some(55), Some(0), Some(100)>>),
       fade_easing |-> EasingText("linear", <<>>)],
      [fast_duration_ms |-> 0, strong_invoke_duration_ms |-> 0,
       soft_dismiss_duration_ms |-> 0, fade_duration_ms |-> 0,
       spring_mild_duration_ms |-> 0, spring_medium_duration_ms |-> 0,
       fast_invoke_easing |-> EasingText("cubic-bezier", <<Some(13), Some(162), Some(0), Some(92)>>),
       strong_invoke_easing |-> EasingText("cubic-bezier", <<Some(0), None, Some(0), Some(100)>>),
       soft_dismiss_easing |-> EasingText("cubic-bezier", <<Some(0), Some(0), Some(0), Some(100), Some(0)>>),
       point_to_point_easing |-> EasingText("other", <<>>),
       fade_easing |-> EasingText("other", <<>>)] }

\* The arguments of the calls of the animation constructors.
AnimationInputs ==
    [op : {"animation"}, constructor : Constructors, motion : Motions,
     reduced_motion : BOOLEAN]

\* the longest list of ranges render_highlighted_text is called with
MaxRanges == 2

\* The arguments of the calls of render_highlighted_text: a text and a list
\* of (start, end) pairs of any offsets up to one past the byte length, in
\* any order.
RenderInputs ==
    UNION {[op : {"render"}, text : {text},
            ranges : SeqUpTo((0..(ByteLen(text) + 1)) \X (0..(ByteLen(text) + 1)),
                             MaxRanges)] : text \in Texts}

\* No session exists: the fields of the session keep the values of a session
\* without items, and only the call of the function is looked at.
MatcherInit ==
    /\ max_results = 0
    /\ matcher = "Nucleo"
    /\ static_items = <<>>
    /\ query = <<>>
    /\ query_id = 0
    /\ async_items = {}
    /\ InitMatches(update_matches(matcher, <<>>, static_items, <<>>, max_results))
    /\ tasks = [g \in Generations |-> "none"]
    /\ provider_calls = {}
    /\ alive = TRUE
    /\ last_call = Call("new", <<>>)
    /\ fn_input \in MatchInputs \cup ComposeInputs \cup ComposeBothInputs \cup RangesInputs
                    \cup AnimationInputs \cup RenderInputs
    /\ fn_output = <<>>
    /\ Unmounted

\* matcher.match_item(query, item), for either built-in back-end
CallMatchItem ==
    /\ fn_input # None
    /\ fn_input.op = "match_item"
    /\ fn_output = <<>>
    /\ fn_output' = <<match_item(fn_input.kind, fn_input.query, fn_input.item)>>
    /\ UNCHANGED <<configVars, presenceVars, fn_input, query, query_id, async_items, matchVars, tasks,
                   provider_calls, alive, last_call>>

\* the combining part of NucleoMatcher::match_item, run on given sub-matches
CallNucleoCompose ==
    /\ fn_input # None
    /\ fn_input.op = "compose"
    /\ fn_output = <<>>
    /\ fn_output' = <<NucleoCompose(fn_input.title_match, fn_input.subtitle_match,
                                    fn_input.keyword_match, fn_input.category_match)>>
    /\ UNCHANGED <<configVars, presenceVars, fn_input, query, query_id, async_items, matchVars, tasks,
                   provider_calls, alive, last_call>>

\* the combining parts of NucleoMatcher::match_item and of
\* FuzzyMatcherWrapper::match_item, run on the same sub-matches; the second
\* never computes a category match
CallBothCompose ==
    /\ fn_input # None
    /\ fn_input.op = "compose_both"
    /\ fn_output = <<>>
    /\ fn_output' = <<[nucleo |-> NucleoCompose(fn_input.title_match, fn_input.subtitle_match,
                                                fn_input.keyword_match,
                                                fn_input.category_match),
                       fuzzy |-> FuzzyCompose(fn_input.title_match, fn_input.subtitle_match,
                                              fn_input.keyword_match)]>>
    /\ UNCHANGED <<configVars, presenceVars, fn_input, query, query_id, async_items, matchVars, tasks,
                   provider_calls, alive, last_call>>

\* indices_to_ranges(&indices, text) in NucleoMatcher::match_text and
\* indices_to_ranges_usize(&indices, text) in FuzzyMatcherWrapper::match_text
CallIndicesToRanges ==
    /\ fn_input # None
    /\ fn_input.op = "ranges"
    /\ fn_output = <<>>
    /\ fn_output' = <<IF fn_input.kind = "Nucleo"
                      THEN indices_to_ranges(fn_input.indices, fn_input.text)
                      ELSE indices_to_ranges_usize(fn_input.indices, fn_input.text)>>
    /\ UNCHANGED <<configVars, presenceVars, fn_input, query, query_id, async_items, matchVars, tasks,
                   provider_calls, alive, last_call>>

\* one of the animation constructors, called with a theme's motion tokens
CallAnimation ==
    /\ fn_input # None
    /\ fn_input.op = "animation"
    /\ fn_output = <<>>
    /\ fn_output' = <<Construct(fn_input.constructor, fn_input.motion,
                                fn_input.reduced_motion)>>
    /\ UNCHANGED <<configVars, presenceVars, fn_input, query, query_id, async_items, matchVars, tasks,
                   provider_calls, alive, last_call>>

\* self.render_highlighted_text(text, ranges, cx)
CallRender ==
    /\ fn_input # None
    /\ fn_input.op = "render"
    /\ fn_output = <<>>
    /\ fn_output' = <<render_highlighted_text(fn_input.text, fn_input.ranges)>>
    /\ UNCHANGED <<configVars, presenceVars, fn_input, query, query_id, async_items, matchVars, tasks,
                   provider_calls, alive, last_call>>

MatcherNext ==
    \/ CallMatchItem
    \/ CallNucleoCompose
    \/ CallBothCompose
    \/ CallIndicesToRanges
    \/ CallAnimation
    \/ CallRender

MatcherSpec == MatcherInit /\ [][MatcherNext]_vars

\* ------------------------------------------------------------------------
\* keyed_presence (animation.rs)
\* ------------------------------------------------------------------------
\* let initial_open = if options.animate_on_mount && animate { false } else { target_open }
InitialOpen(target_open, animate, animate_on_mount) ==
    IF animate_on_mount /\ animate THEN FALSE ELSE target_open

\* window.use_keyed_state(target_key, ..) followed by *target_state.read(cx):
\* the stored target, which the first call creates as initial_open
PreviousTarget(initial_open) == IF mounted THEN target_state ELSE initial_open

\* window.use_keyed_state(phase_key, ..): the stored phase, which the first
\* call creates from initial_open
PreviousPhase(initial_open) ==
    IF mounted THEN phase_state
    ELSE IF initial_open THEN "Entered" ELSE "Exited"

\* the timer a target change spawns
Timer(open) == Some([open |-> open, status |-> "pending"])

\* the part of keyed_presence that follows the reads of the keyed state
PresenceUpdate(previous_target, previous_phase, target_open, animate) ==
    IF previous_target # target_open
    THEN /\ generation_state < MaxGeneration
         /\ target_state' = target_open
         /\ generation_state' = generation_state + 1
         /\ IF ~animate
            THEN /\ phase_state' = IF target_open THEN "Entered" ELSE "Exited"
                 /\ UNCHANGED timers
            ELSE /\ phase_state' = IF target_open THEN "Entering" ELSE "Exiting"
                 /\ timers' = [timers EXCEPT ![generation_state + 1] = Timer(target_open)]
    ELSE /\ target_state' = previous_target
         /\ phase_state' = previous_phase
         /\ UNCHANGED <<generation_state, timers>>

\* keyed_presence(key_base, target_open, animate, .., options, window, cx),
\* called by a render of the element
keyed_presence(target_open, animate, animate_on_mount) ==
    /\ mounted' = TRUE
    /\ PresenceUpdate(PreviousTarget(InitialOpen(target_open, animate, animate_on_mount)),
                      PreviousPhase(InitialOpen(target_open, animate, animate_on_mount)),
                      target_open, animate)
    /\ UNCHANGED <<configVars, pureVars, query, query_id, async_items, matchVars, tasks,
                   provider_calls, alive, last_call>>

\* a plausible slip: the timer does not compare the generation
StillLatest_Always(generation) == TRUE

\* generation_state.update(cx, |state, _| *state == generation)
StillLatest(generation) == generation_state = generation

\* the timer with a new status
Ended(generation, status) ==
    [timers EXCEPT ![generation] = Some([open |-> timers[generation][1].open,
                                         status |-> status])]

\* The task spawned by the target change of a generation, from the end of
\* its timer to its end: the generation is checked, then the target, and
\* the phase is set to the completed phase.
TimerFires(generation) ==
    /\ timers[generation] # None
    /\ timers[generation][1].status = "pending"
    /\ IF ~StillLatest(generation)
       THEN /\ timers' = Ended(generation, "stale")
            /\ UNCHANGED phase_state
       ELSE IF timers[generation][1].open = target_state
       THEN /\ timers' = Ended(generation, "completed")
            /\ phase_state' = IF timers[generation][1].open THEN "Entered" ELSE "Exited"
       ELSE /\ timers' = Ended(generation, "ignored")
            /\ UNCHANGED phase_state
    /\ UNCHANGED <<mounted, target_state, generation_state>>
    /\ UNCHANGED <<configVars, pureVars, query, query_id, async_items, matchVars, tasks,
                   provider_calls, alive, last_call>>

\* No session exists and no function is called on its own: only the
\* presence of one element is looked at.
PresenceInit ==
    /\ max_results = 0
    /\ matcher = "Nucleo"
    /\ static_items = <<>>
    /\ query = <<>>
    /\ query_id = 0
    /\ async_items = {}
    /\ InitMatches(update_matches(matcher, <<>>, static_items, <<>>, max_results))
    /\ tasks = [g \in Generations |-> "none"]
    /\ provider_calls = {}
    /\ alive = TRUE
    /\ last_call = Call("new", <<>>)
    /\ fn_input = None
    /\ fn_output = <<>>
    /\ Unmounted

Render ==
    \E target_open \in BOOLEAN : \E animate \in BOOLEAN : \E animate_on_mount \in BOOLEAN :
        keyed_presence(target_open, animate, animate_on_mount)

RunTimer == \E generation \in PresenceGenerations : TimerFires(generation)

PresenceNext ==
    \/ Render
    \/ RunTimer

PresenceSpec == PresenceInit /\ [][PresenceNext]_vars

\* ------------------------------------------------------------------------
\* Properties
\* ------------------------------------------------------------------------
\* the fields of the state a reader of the palette observes
observedVars == <<query, async_items, matched_items, matched_static_len, selected_index>>

\* C1: staleness guard.  Every item the provider returned carries the
\* generation of the call that produced it; an item of async_items or of
\* matched_items that came from the provider always belongs to the current
\* generation, whatever the order in which set_query calls and completions
\* interleave.
C1_StalenessGuard ==
    /\ \A it \in async_items : it.payload = query_id
    /\ \A k \in 1..Len(matched_items) : matched_items[k].item.payload \in {0, query_id}

\* C1 witness: an older query completes after the newer query's result has
\* been applied and is still displayed.
C1_Witness ==
    /\ last_call.op = "task_stale_after_query"
    /\ async_items # {}
    /\ \E k \in 1..Len(matched_items) : matched_items[k].item.payload = query_id

\* C2: a task that reaches a checkpoint (after the delay, after the provider's
\* future) while superseded ends there, without changing query, async_items,
\* matched_items, matched_static_len or selected_index.
C2_SupersededTaskChangesNothing ==
    [][\A g \in Generations :
          (tasks[g] \in {"spawned", "awaiting"} /\ query_id # g /\ tasks'[g] # tasks[g])
             => /\ tasks'[g] = "ended"
                /\ UNCHANGED <<observedVars, query_id, provider_calls>>]_vars

\* C2 witness: a superseded task has ended at the second checkpoint while the
\* user's selection was away from the first row.
C2_Witness ==
    /\ last_call.op = "task_stale_after_query"
    /\ selected_index # None
    /\ selected_index[1] > 0

\* C3: set_query with the current query text changes nothing, and the task in
\* flight for that text is neither cancelled nor spawned again.
C3_SameQueryIsNoOp ==
    [][\A q \in Queries :
          (q = query /\ set_query(q))
             => UNCHANGED <<observedVars, query_id, tasks, provider_calls>>]_vars

\* C3 witness: set_query was called with the current text while the task of
\* the current generation was in flight.
C3_Witness ==
    /\ last_call.op = "set_query_same"
    /\ query_id > 0
    /\ tasks[query_id] \in {"spawned", "awaiting"}

\* C4: right after set_query with a new text, async_items is empty and
\* matched_items is the recompute over static_items alone: nothing a provider
\* returned is displayed and matched_static_len is the length of the list.
C4_SetQueryShowsStaticOnly ==
    [][\A q \in Queries :
          (q # query /\ set_query(q))
             => /\ async_items' = {}
                /\ query' = q
                /\ matched_items' =
                      update_matches(matcher, q, static_items, <<>>, max_results).matched_items
                /\ matched_static_len' = Len(matched_items')
                /\ \A k \in 1..Len(matched_items') : matched_items'[k].item.payload = 0]_vars

\* C4 witness: set_query has just replaced a query whose asynchronous result
\* had been applied, and static matches are displayed.
C4_Witness ==
    /\ last_call.op = "set_query"
    /\ query_id > 1
    /\ tasks[query_id - 1] = "applied"
    /\ matched_items # <<>>

\* C5: no provider query is made for a query of fewer than 2 Unicode scalar
\* values.
C5_NoProviderQueryBelowTwoChars ==
    \A c \in provider_calls : CharCount(c.text) >= 2

\* C6: while the query is exactly one Unicode scalar value, nothing is matched
\* and nothing is selected.
C6_SingleCharQueryMatchesNothing ==
    CharCount(query) = 1
       => /\ matched_items = <<>>
          /\ matched_static_len = 0
          /\ selected_index = None

\* the ids of the static items
StaticIds == {static_items[k].id : k \in 1..Len(static_items)}

\* the static item at position k as the recompute sees it: replaced by the
\* entry of async_items with its id, if there is one
MergedStatic(k) ==
    IF /\ \E it \in async_items : it.id = static_items[k].id
       /\ \A j \in 1..(k - 1) : static_items[j].id # static_items[k].id
    THEN CHOOSE it \in async_items : it.id = static_items[k].id
    ELSE static_items[k]

\* S: the number of items of the static list that match the query
MatchingStatic ==
    Cardinality({k \in 1..Len(static_items) :
                    match_item(matcher, query, MergedStatic(k)) # None})

\* A: the number of async-only items that match the query
MatchingAsyncOnly ==
    Cardinality({it \in async_items :
                    it.id \notin StaticIds /\ match_item(matcher, query, it) # None})

\* C7: static results are never starved.  Whenever the recompute reaches its
\* truncation (the query is not the single-byte special case), the static
\* section holds min(S, max_results) entries, the async section fills what is
\* left, min(A, max_results - matched_static_len), and the static section
\* comes first.
C7_StaticNeverStarved ==
    ByteLen(query) # 1
       => /\ matched_static_len = Min(MatchingStatic, max_results)
          /\ Len(matched_items) - matched_static_len
                = Min(MatchingAsyncOnly, max_results - matched_static_len)
          /\ \A k \in 1..Len(matched_items) :
                IF k <= matched_static_len
                THEN matched_items[k].item.id \in StaticIds
                ELSE /\ matched_items[k].item.id \notin StaticIds
                     /\ matched_items[k].item \in async_items

\* C7 witness: an asynchronous result was merged, static and async-only items
\* match, and the cap cuts async-only items while every static match is kept.
C7_Witness ==
    /\ last_call.op = "task_apply"
    /\ max_results >= 1
    /\ MatchingStatic >= 1
    /\ MatchingAsyncOnly >= 1
    /\ matched_static_len = MatchingStatic
    /\ Len(matched_items) - matched_static_len < MatchingAsyncOnly

\* C8: selected_index is None exactly when matched_items is empty, and
\* otherwise an index into matched_items.
C8_SelectionInBounds ==
    /\ selected_index = None <=> matched_items = <<>>
    /\ selected_index # None => selected_index[1] < Len(matched_items)

\* C8 witness: the selection was moved to the last of several rows.
C8_Witness ==
    /\ last_call.op \in {"select_next", "select_prev", "select_index"}
    /\ Len(matched_items) >= 2
    /\ selected_index = Some(Len(matched_items) - 1)

\* C9: select_next moves the selection to the next row modulo the number of
\* rows and select_prev to the previous row modulo the number of rows, so N
\* select_next calls from row 0 come back to row 0; on an empty list both leave
\* selected_index at None.
C9_SelectionIsCircular ==
    [][LET n == Len(matched_items) IN
       /\ (select_next /\ n > 0 /\ selected_index # None)
             => selected_index' = Some((selected_index[1] + 1) % n)
       /\ (select_prev /\ n > 0 /\ selected_index # None)
             => selected_index' = Some((selected_index[1] + n - 1) % n)
       /\ ((select_next \/ select_prev) /\ n = 0)
             => (selected_index' = None /\ UNCHANGED selected_index)
       /\ (select_next \/ select_prev) => UNCHANGED matched_items]_vars

\* C9 witness: select_prev has wrapped from the first row to the last of
\* several rows.
C9_Witness ==
    /\ last_call.op = "select_prev"
    /\ Len(matched_items) >= 3
    /\ selected_index = Some(Len(matched_items) - 1)

\* C10: select_index(i) selects row i when i is in bounds and changes nothing
\* otherwise.
C10_SelectIndexBounds ==
    [][\A i \in Indices :
          select_index(i)
             => IF i < Len(matched_items)
                THEN selected_index' = Some(i) /\ UNCHANGED matched_items
                ELSE UNCHANGED <<observedVars, query_id, tasks, provider_calls>>]_vars

\* C10 witness: an out-of-bounds select_index was ignored while a row other
\* than the first was selected.
C10_Witness ==
    /\ last_call.op = "select_index_out_of_bounds"
    /\ selected_index # None
    /\ selected_index[1] > 0

\* C11: confirm emits exactly one Selected event carrying the selected item
\* when a row is selected and its item is not disabled, emits nothing when no
\* row is selected or the selected item is disabled, and in every case leaves
\* query, matched_items, matched_static_len, selected_index and async_items
\* unchanged.
C11_ConfirmEmitsSelected ==
    [][confirm =>
          /\ last_call'.emitted =
                IF /\ selected_index # None
                   /\ selected_index[1] < Len(matched_items)
                   /\ ~matched_items[selected_index[1] + 1].item.disabled
                THEN <<[event |-> "Selected",
                        item |-> matched_items[selected_index[1] + 1].item]>>
                ELSE <<>>
          /\ UNCHANGED observedVars]_vars

\* C11 witness: confirm was called on a selected disabled item and emitted
\* nothing.
C11_Witness ==
    /\ last_call.op = "confirm"
    /\ last_call.emitted = <<>>
    /\ selected_index # None
    /\ matched_items[selected_index[1] + 1].item.disabled

\* C12 as stated: in no reachable state does selected_index designate an item
\* whose disabled flag is true.
C12_SelectionNeverDisabled ==
    (selected_index # None /\ selected_index[1] < Len(matched_items))
       => ~matched_items[selected_index[1] + 1].item.disabled

\* C12 as amended: a disabled item may be the selected row, but it is never
\* confirmed: no Selected event carries an item whose disabled flag is true.
C12_DisabledNeverConfirmed ==
    \A k \in 1..Len(last_call.emitted) :
       last_call.emitted[k].event = "Selected" => ~last_call.emitted[k].item.disabled

\* C12 witness: the selection was moved by navigation onto a disabled item
\* below the first row, confirm was called for it, and nothing was emitted.
C12_Witness ==
    /\ last_call.op = "confirm"
    /\ last_call.emitted = <<>>
    /\ selected_index # None
    /\ selected_index[1] > 0
    /\ selected_index[1] < Len(matched_items)
    /\ matched_items[selected_index[1] + 1].item.disabled
    /\ \E k \in 1..Len(matched_items) : ~matched_items[k].item.disabled

\* the task of generation g is in flight for the current query of an open
\* palette
Pending(g) == tasks[g] \in {"spawned", "awaiting"} /\ query_id = g /\ alive

\* the outcomes of update_matches for query q over the map items, one for
\* each iteration order of the map
Recomputes(q, items) ==
    {update_matches(matcher, q, static_items, order, max_results) : order \in Orders(items)}

\* the result of generation g has been merged: async_items is a result list
\* keyed by id and matched_items is the recompute that includes it
Applied(g) ==
    /\ tasks[g] = "applied"
    /\ \E result \in QueryResults : async_items = InsertAll({}, Stamp(result, g))
    /\ \E r \in Recomputes(query, async_items) :
          /\ matched_items = r.matched_items
          /\ matched_static_len = r.matched_static_len

\* C13: liveness of the asynchronous path.  A task in flight for the current
\* query (which has at least 2 bytes) leads to its result being merged (the
\* task ends as "applied"), unless the query is changed again or the palette
\* is closed; and the step that merges the result R of the provider's future,
\* the only step by which a task becomes "applied", leaves async_items equal
\* to R keyed by id and matched_items equal to the recompute over it.
C13_AsyncResultEventuallyApplied ==
    /\ [][\A g \in Generations : \A result \in QueryResults :
            (TaskComplete(g, result) /\ query_id = g /\ alive)
               => /\ tasks'[g] = "applied"
                  /\ async_items' = InsertAll({}, Stamp(result, g))
                  /\ \E r \in Recomputes(query, InsertAll({}, Stamp(result, g))) :
                        /\ matched_items' = r.matched_items
                        /\ matched_static_len' = r.matched_static_len]_vars
    /\ \A g \in Generations :
          Pending(g) ~> (tasks[g] = "applied" \/ query_id # g \/ ~alive)

\* C13 witness: the result of the current query has been merged and one of
\* its items is displayed.
C13_Witness ==
    /\ last_call.op = "task_apply"
    /\ CharCount(query) >= 2
    /\ Applied(query_id)
    /\ \E k \in 1..Len(matched_items) : matched_items[k].item.payload = query_id

\* C14: merge by identity.  A displayed item whose id is an id of async_items
\* is the async entry, never the original static data; an item is in the
\* static section exactly when its id is a static id, also when it is an
\* async entry that replaced a static item, and every other displayed item is
\* an async-only entry; each item is matched on the data it is displayed
\* with; and, where the cap leaves room, every matching async entry is
\* displayed, in the static section when its id is a static id and in the
\* async section otherwise.
C14_MergeByIdentity ==
    /\ \A k \in 1..Len(matched_items) :
          /\ (\E a \in async_items : a.id = matched_items[k].item.id)
                => matched_items[k].item \in async_items
          /\ (matched_items[k].item.id \in StaticIds) <=> (k <= matched_static_len)
          /\ (matched_items[k].item.id \notin StaticIds)
                => matched_items[k].item \in async_items
          /\ Some(matched_items[k].match_info)
                = match_item(matcher, query, matched_items[k].item)
    /\ ByteLen(query) # 1 =>
          \A a \in async_items :
             match_item(matcher, query, a) # None =>
                /\ (a.id \in StaticIds /\ MatchingStatic <= max_results)
                      => \E k \in 1..matched_static_len : matched_items[k].item = a
                /\ (a.id \notin StaticIds /\ MatchingStatic + MatchingAsyncOnly <= max_results)
                      => \E k \in (matched_static_len + 1)..Len(matched_items) :
                            matched_items[k].item = a

\* C14 witness: a result holding an entry with a static id and an async-only
\* entry was merged for a query the original static item does not match but
\* its replacement does, and the replacement is displayed in the static
\* section.
C14_Witness ==
    /\ last_call.op = "task_apply"
    /\ \E a \in async_items : a.id \notin StaticIds
    /\ \E k \in 1..matched_static_len : \E j \in 1..Len(static_items) :
          /\ matched_items[k].item \in async_items
          /\ matched_items[k].item.id = static_items[j].id
          /\ match_item(matcher, query, static_items[j]) = None

\* C15: for a non-empty query, within the static section and within the async
\* section of matched_items, every entry's score is at least the next entry's
\* score, and two adjacent entries with equal score are in ascending title
\* order.
C15_SectionsSorted ==
    query # <<>> =>
       \A k \in 1..(Len(matched_items) - 1) :
          k # matched_static_len =>
             /\ matched_items[k].match_info.score >= matched_items[k + 1].match_info.score
             /\ matched_items[k].match_info.score = matched_items[k + 1].match_info.score
                   => ~StrLess(matched_items[k + 1].item.title, matched_items[k].item.title)

\* C15 witness: an asynchronous result was merged for a non-empty query and
\* the async section shows two entries of equal score in ascending title
\* order.
C15_Witness ==
    /\ last_call.op = "task_apply"
    /\ query # <<>>
    /\ \E k \in (matched_static_len + 1)..(Len(matched_items) - 1) :
          /\ matched_items[k].match_info.score = matched_items[k + 1].match_info.score
          /\ StrLess(matched_items[k].item.title, matched_items[k + 1].item.title)

\* C16: the merge and truncation are deterministic.  The displayed list is the
\* one the recompute yields for the current query, static_items, set of
\* asynchronous items and max_results whatever the order in which the map of
\* asynchronous items is iterated: any two runs with these same inputs show
\* the same matched_items and the same matched_static_len.
C16_MergeIsDeterministic ==
    \A r \in Recomputes(query, async_items) :
       /\ matched_items = r.matched_items
       /\ matched_static_len = r.matched_static_len

\* C17 as stated: in the initial state of a session the query is empty,
\* matched_items holds every static item with score 0 and empty ranges,
\* matched_static_len is the number of static items, async_items is empty and
\* selected_index is Some(0) if the static list is non-empty and None
\* otherwise.
C17_InitialListHoldsEveryStaticItem ==
    last_call.op = "new" =>
       /\ query = <<>>
       /\ async_items = {}
       /\ Len(matched_items) = Len(static_items)
       /\ \A k \in 1..Len(matched_items) :
             matched_items[k] = [item |-> static_items[k],
                                 match_info |-> CommandPaletteMatch(0, <<>>, <<>>)]
       /\ matched_static_len = Len(static_items)
       /\ selected_index = IF static_items # <<>> THEN Some(0) ELSE None

\* C17 as amended: in the initial state of a session the query is empty,
\* matched_items holds the first min(n, max_results) of the n static items, in
\* their order, each with score 0 and empty ranges, matched_static_len is that
\* number, async_items is empty and selected_index is Some(0) if that list is
\* non-empty and None otherwise.
C17_InitialListIsCappedStaticList ==
    last_call.op = "new" =>
       /\ query = <<>>
       /\ async_items = {}
       /\ Len(matched_items) = Min(Len(static_items), max_results)
       /\ \A k \in 1..Len(matched_items) :
             matched_items[k] = [item |-> static_items[k],
                                 match_info |-> CommandPaletteMatch(0, <<>>, <<>>)]
       /\ matched_static_len = Len(matched_items)
       /\ selected_index = IF matched_items # <<>> THEN Some(0) ELSE None

\* C17 witness: a session has just been created with more static items than
\* the cap allows, and the cap is not zero.
C17_Witness ==
    /\ last_call.op = "new"
    /\ max_results >= 1
    /\ Len(static_items) > max_results
    /\ Len(matched_items) = max_results

\* C18: every recompute, on a set_query that changes the query and on the
\* application of an asynchronous result, leaves selected_index at Some(0)
\* when the resulting list is non-empty and at None when it is empty, wherever
\* the selection was before.
C18_RecomputeResetsSelection ==
    [][/\ \A q \in Queries :
             (q # query /\ set_query(q))
                => selected_index' = IF matched_items' = <<>> THEN None ELSE Some(0)
       /\ \A g \in Generations : \A result \in QueryResults :
             (TaskComplete(g, result) /\ tasks'[g] = "applied")
                => selected_index' = IF matched_items' = <<>> THEN None ELSE Some(0)]_vars

\* C18 witness: an asynchronous result was applied over a list of several
\* rows and the first row is selected.
C18_Witness ==
    /\ last_call.op = "task_apply"
    /\ Len(matched_items) >= 2
    /\ selected_index = Some(0)

\* C19: for the empty query, match_item returns a match with score 0 and
\* empty title and subtitle ranges, for both built-in back-ends and whatever
\* the fields of the item.
C19_EmptyQueryMatchesEverything ==
    (fn_input # None /\ fn_input.op = "match_item" /\ fn_input.query = <<>>
        /\ fn_output # <<>>)
       => fn_output[1] = Some([score |-> 0, title_ranges |-> <<>>, subtitle_ranges |-> <<>>])

\* C19 witness: match_item of FuzzyMatcherWrapper has returned for the empty
\* query and a disabled item that has a category and keywords.
C19_Witness ==
    /\ fn_input # None
    /\ fn_input.op = "match_item"
    /\ fn_input.query = <<>>
    /\ fn_input.kind = "FuzzyMatcher"
    /\ fn_input.item.disabled
    /\ fn_input.item.keywords # <<>>
    /\ fn_input.item.category # <<>>
    /\ fn_output # <<>>

\* C20: the composition rule of NucleoMatcher::match_item for a non-empty
\* query.  The result is None when none of title, subtitle and keyword
\* matched, whatever the category; otherwise its score is the largest of
\* title + 1000, subtitle + 500 and keyword + 200 over the fields that
\* matched, plus the category score divided by 10 (integer division) when
\* the category matched too.
C20_CompositionRule ==
    (fn_input # None /\ fn_input.op = "compose" /\ fn_output # <<>>)
       => LET boosted ==
                 (IF fn_input.title_match = None THEN {}
                  ELSE {fn_input.title_match[1].score + 1000})
                 \cup (IF fn_input.subtitle_match = None THEN {}
                       ELSE {fn_input.subtitle_match[1].score + 500})
                 \cup (IF fn_input.keyword_match = None THEN {}
                       ELSE {fn_input.keyword_match[1].score + 200})
              bonus ==
                 IF fn_input.category_match = None THEN 0
                 ELSE fn_input.category_match[1].score \div 10
          IN IF boosted = {}
             THEN fn_output[1] = None
             ELSE /\ fn_output[1] # None
                  /\ \E best \in boosted :
                        /\ \A other \in boosted : other <= best
                        /\ fn_output[1][1].score = best + bonus

\* C20 witness: the combination has run on a subtitle match that beats the
\* title match, with a category score that is no multiple of 10.
C20_Witness ==
    /\ fn_input # None
    /\ fn_input.op = "compose"
    /\ fn_output # <<>>
    /\ fn_input.title_match # None
    /\ fn_input.subtitle_match # None
    /\ fn_input.subtitle_match[1].score + 500 > fn_input.title_match[1].score + 1000
    /\ fn_input.category_match # None
    /\ fn_input.category_match[1].score = 15
    /\ fn_output[1] # None
    /\ fn_output[1][1].score = fn_input.subtitle_match[1].score + 501

\* C21: the two built-in back-ends apply the same composition rule: from the
\* same sub-match outcomes for title, subtitle, keywords and category they
\* reach the same match or no-match decision and the same score.
C21_BackEndsComposeAlike ==
    (fn_input # None /\ fn_input.op = "compose_both" /\ fn_output # <<>>)
       => /\ (fn_output[1].nucleo = None) <=> (fn_output[1].fuzzy = None)
          /\ fn_output[1].nucleo # None
                => fn_output[1].nucleo[1].score = fn_output[1].fuzzy[1].score

RECURSIVE Joined(_)
\* the pieces of a split text, joined again
Joined(elements) ==
    IF elements = <<>> THEN <<>> ELSE Head(elements) \o Joined(Tail(elements))

\* C22: highlight ranges round-trip.  For every text and every index list a
\* back-end reports for it, the byte ranges the conversion returns are
\* ordered by start, do not overlap, satisfy start < end <= byte length and
\* lie on char boundaries, and splitting the text at them in order and
\* joining the pieces gives the text back.
C22_RangesRoundTrip ==
    (fn_input # None /\ fn_input.op = "ranges" /\ fn_output # <<>>)
       => /\ \A k \in 1..Len(fn_output[1]) :
                /\ fn_output[1][k][1] < fn_output[1][k][2]
                /\ fn_output[1][k][2] <= ByteLen(fn_input.text)
                /\ IsCharBoundary(fn_input.text, fn_output[1][k][1])
                /\ IsCharBoundary(fn_input.text, fn_output[1][k][2])
          /\ \A k \in 1..(Len(fn_output[1]) - 1) :
                fn_output[1][k][2] <= fn_output[1][k + 1][1]
          /\ ~render_highlighted_text(fn_input.text, fn_output[1]).panicked
          /\ Joined(render_highlighted_text(fn_input.text, fn_output[1]).elements)
                = Bytes(fn_input.text)

\* C23: reduced motion.  spring_invoke_animation, like every animation
\* constructor built on theme_animation or spring_preset_animation, returns
\* no animation exactly when reduced_motion is true, and an animation
\* whenever reduced_motion is false.
C23_ReducedMotionMeansNoAnimation ==
    (fn_input # None /\ fn_input.op = "animation" /\ fn_output # <<>>)
       => ((fn_output[1] = None) <=> fn_input.reduced_motion)

\* spring_invoke_animation has returned an animation of the mild spring
C23_Witness ==
    /\ fn_input # None
    /\ fn_input.op = "animation"
    /\ fn_input.constructor = "spring_invoke"
    /\ ~fn_input.reduced_motion
    /\ fn_output # <<>>
    /\ fn_output[1] # None
    /\ fn_output[1][1].easing = "spring"
    /\ fn_output[1][1].duration_ms = fn_input.motion.spring_mild_duration_ms

\* the calls of provider.query made by the task of generation g
CallsOf(g) == {c \in provider_calls : c.gen = g}

\* C24: provider.query(t) is only called by a task whose generation is the
\* current one, with t the query of the state at that moment, and never
\* twice by one task; a task superseded while it waits in its reveal delay
\* never calls the provider.  So every recorded call belongs to a generation
\* that a query-changing set_query opened, each generation has at most one
\* call, and the call of the current generation carries the current query.
C24_ProviderCalledOnceForCurrentQuery ==
    /\ [](\A g \in Generations :
             /\ Cardinality(CallsOf(g)) <= 1
             /\ CallsOf(g) # {} => g \in 1..query_id
             /\ tasks[g] \in {"none", "spawned"} => CallsOf(g) = {})
    /\ [](\A c \in CallsOf(query_id) : c.text = query)
    /\ [][\A g \in Generations :
            (TaskQuery(g) /\ last_call'.op = "task_query")
               => /\ query_id = g
                  /\ alive
                  /\ CallsOf(g) = {}
                  /\ provider_calls' = provider_calls \cup {[gen |-> g, text |-> query]}]_vars
    /\ [][\A g \in Generations :
            (tasks[g] = "spawned" /\ query_id # g)
               => /\ CallsOf(g)' = {}
                  /\ tasks'[g] \in {"spawned", "ended"}]_vars

\* C24 witness: a task superseded during its reveal delay has ended at the
\* generation check without a call, after the task of the newer query has
\* called the provider with the current query.
C24_Witness ==
    /\ last_call.op = "task_stale_after_delay"
    /\ \E g \in 1..(query_id - 1) : tasks[g] = "ended" /\ CallsOf(g) = {}
    /\ CallsOf(query_id) = {[gen |-> query_id, text |-> query]}

\* C25: rendering highlighted text is defensive against invalid ranges: for
\* every text and every list of (start, end) ranges, also with a start or an
\* end beyond the byte length of the text, render_highlighted_text never
\* slices the text outside its bounds, so it never fails.
C25_RenderNeverFails ==
    (fn_input # None /\ fn_input.op = "render" /\ fn_output # <<>>)
       => ~fn_output[1].panicked

\* C26: keyed_presence ignores stale timers.  A completion timer spawned by
\* a target change that a later target change has superseded ends without
\* modifying the phase, and the phase is never Entered while the target is
\* closed nor Exited while the target is open.
C26_StaleTimersIgnored ==
    /\ [](mounted => /\ phase_state = "Entered" => target_state
                     /\ phase_state = "Exited" => ~target_state)
    /\ [][\A generation \in PresenceGenerations :
            (TimerFires(generation) /\ generation # generation_state)
               => /\ UNCHANGED <<phase_state, target_state, generation_state>>
                  /\ timers'[generation][1].status = "stale"]_vars

\* C26 witness: with animation, the timer of an open that a close and a
\* second open have superseded has ended while the second open is still
\* entering, and the phase is still Entering.
C26_Witness ==
    /\ mounted
    /\ target_state
    /\ phase_state = "Entering"
    /\ \E generation \in 1..(generation_state - 1) :
          /\ timers[generation] = Some([open |-> TRUE, status |-> "stale"])
          /\ timers[generation + 1] # None
    /\ timers[generation_state] = Timer(TRUE)

\* C27: in every reachable state matched_items has at most max_results
\* entries and matched_static_len is at most the length of matched_items;
\* with max_results = 0, matched_items is empty and selected_index is None.
C27_ListWithinCap ==
    /\ Len(matched_items) <= max_results
    /\ matched_static_len <= Len(matched_items)
    /\ max_results = 0 => (matched_items = <<>> /\ selected_index = None)

\* C27 witness: an asynchronous result was merged and more items match than
\* the cap admits; the list is cut to exactly max_results entries, of both
\* sections.
C27_Witness ==
    /\ last_call.op = "task_apply"
    /\ MatchingStatic + MatchingAsyncOnly > max_results
    /\ Len(matched_items) = max_results
    /\ 0 < matched_static_len
    /\ matched_static_len < Len(matched_items)

\* C28: if the static items have pairwise distinct ids, no two entries of
\* matched_items have the same id in any reachable state, whatever the
\* provider returned: also a result that repeats an id or uses the id of a
\* static item.
C28_DisplayedIdsDistinct ==
    (\A j, k \in 1..Len(static_items) : static_items[j].id = static_items[k].id => j = k)
       => \A j, k \in 1..Len(matched_items) :
             matched_items[j].item.id = matched_items[k].item.id => j = k

\* C28 witness: the provider returned an item under the id of a static item
\* together with an item of its own; both are displayed, the first in the
\* place of the static item.
C28_Witness ==
    /\ last_call.op = "task_apply"
    /\ static_items # <<>>
    /\ \E k \in 1..matched_static_len :
          /\ matched_items[k].item.id \in StaticIds
          /\ matched_items[k].item.payload = query_id
    /\ \E k \in (matched_static_len + 1)..Len(matched_items) :
          matched_items[k].item.id \notin StaticIds

\* C29: in every reachable state in which the query is shorter than 2 bytes,
\* async_items is empty and matched_static_len is the length of
\* matched_items: no asynchronous result is applied or displayed below the
\* threshold, also when the provider call of an earlier, longer query
\* completes afterwards.
C29_NothingAsyncBelowThreshold ==
    ByteLen(query) < 2
       => /\ async_items = {}
          /\ matched_static_len = Len(matched_items)
          /\ \A k \in 1..Len(matched_items) : matched_items[k].item.payload = 0

\* C29 witness: the provider call of an earlier query of two bytes or more
\* has completed while the query is empty, and the static items are
\* displayed.
C29_Witness ==
    /\ last_call.op = "task_stale_after_query"
    /\ query = <<>>
    /\ matched_items # <<>>
    /\ \E c \in provider_calls : ByteLen(c.text) >= 2 /\ tasks[c.gen] = "ended"

\* C30: the two row mappings of the presentation agree in every reachable
\* state.  For every index i below the length of matched_items, the row at
\* position row_index_for_item(i) of the list build_rows returns is the item
\* row of i, never a section header, whether each of the two section titles
\* is present or absent.
C30_RowMappingsAgree ==
    \A commands_section_title \in CommandsTitles :
      \A results_section_title \in ResultsTitles :
        \A i \in 0..(Len(matched_items) - 1) :
           Get(build_rows(query, matched_static_len, matched_items,
                          commands_section_title, results_section_title),
               row_index_for_item(query, matched_static_len, matched_items, i,
                                  commands_section_title, results_section_title))
              = Some(ItemRow(i))

\* C30 witness: both sections are displayed, the selection is on an item of
\* the results section, and with both titles present its row comes after
\* two headers.
C30_Witness ==
    /\ last_call.op \in {"select_next", "select_prev", "select_index"}
    /\ 0 < matched_static_len
    /\ selected_index # None
    /\ selected_index[1] >= matched_static_len
    /\ row_index_for_item(query, matched_static_len, matched_items, selected_index[1],
                          <<"Commands">>, <<"Search Results">>) = selected_index[1] + 2
    /\ Len(build_rows(query, matched_static_len, matched_items, <<"Commands">>,
                      <<"Search Results">>)) = Len(matched_items) + 2

====
